---- MODULE Spec2Model ----
\* Error refinement of the next-generation trait solver
\* (compiler/rustc_trait_selection/src/solve/fulfill/derive_errors.rs):
\* the three fulfillment-error builders, find_best_leaf_obligation and the
\* BestObligation proof-tree visitor, as a state machine.
\*
\* The recorded proof tree is an input.  The solver evaluates a goal only when
\* the visitor asks for it, so an InspectGoal is drawn from a bounded set at the
\* moment the visitor reaches it (action Evaluate).  The solver's own depth limit
\* is MaxDepth: a goal evaluated at that depth has no candidates.
EXTENDS Integers, Sequences, FiniteSets, TLC

VARIABLES
    entry,                  \* which builder runs: "no_solution", "stalled", "overflow", or "filter"
    root_obligation,        \* the builder's argument
    pc,                     \* position of the single thread of control
    consider_ambiguities,   \* BestObligation.consider_ambiguities
    obligation,             \* BestObligation.obligation
    stack,                  \* pending with_derived_obligation / visit_proof_tree_at_depth calls
    goal,                   \* the InspectGoal handed to visit_goal
    candidates,             \* what non_trivial_candidates returned (filter specification)
    ret,                    \* ControlFlow returned by the innermost finished visit_goal
    infcx,                  \* shared inference state: the set of bound inference variables
    snapshot,               \* inference state saved by fudge_inference_if_ok
    infcx0,                 \* inference state at the start of the builder
    code,                   \* FulfillmentErrorCode of the record being built
    certainty,              \* what the re-solve of fulfillment_error_for_stalled returned
    refine_obligation,      \* the flag computed by fulfillment_error_for_stalled's probe
    leaf,                   \* what find_best_leaf_obligation returned
    error                   \* the FulfillmentError returned

vars == <<entry, root_obligation, pc, consider_ambiguities, obligation, stack, goal,
          candidates, ret, infcx, snapshot, infcx0, code, certainty, refine_obligation,
          leaf, error>>

-----------------------------------------------------------------------------
\* Bounds of the model.

\* most candidates recorded for one goal
MaxCands == 2
\* most nested goals of one candidate, and most requirements of one WellFormed goal
MaxNested == 2
\* the solver's depth limit: a goal at this depth is recorded without candidates
MaxDepth == 2

-----------------------------------------------------------------------------
\* Data.

None == "None"

Sources == {"Misc", "ImplWhereBound", "AliasBoundConstCondition",
            "InstantiateHigherRanked", "AliasWellFormed"}

\* Ok(Certainty::Yes), Ok(Maybe(Ambiguity)), Ok(Maybe(Overflow)), Err(NoSolution)
Results == {"Yes", "Ambiguity", "Overflow", "NoSolution"}

IsOk(result) == result # "NoSolution"

\* The impls of the crate under diagnosis, as the queries of tcx answer:
\* predicates_of(impl) and const_conditions(impl) as the sequence of their spans.
Impls == {"ImplA", "ImplB", "ImplD"}

predicates_of(impl) ==
    CASE impl = "ImplA" -> <<"A.where0", "A.where1">>
      [] impl = "ImplB" -> <<"B.where0">>
      [] OTHER          -> <<"D.where0">>

const_conditions(impl) ==
    CASE impl = "ImplB" -> <<"B.const0">>
      [] OTHER          -> <<>>

do_not_recommend_impl(impl) == impl = "ImplD"

\* tcx.lang_items().fn_ptr_trait()
fn_ptr_trait == "FnPtr"

\* A predicate: its kind and up to two arguments.  `bound` says that the binder
\* binds a variable (no_bound_vars() is then None).
Pred(kind, a, b, bound) == [kind |-> kind, a |-> a, b |-> b, bound |-> bound]

TraitTr     == Pred("Trait", "Tr", None, FALSE)
TraitFnPtr  == Pred("Trait", "FnPtr", None, FALSE)
HostTr      == Pred("HostEffect", "Tr", None, FALSE)
NormProj    == Pred("NormalizesTo", "ProjectionTy", None, FALSE)
NormOpaque  == Pred("NormalizesTo", "OpaqueTy", None, FALSE)
WfOf(arg)   == Pred("WellFormed", arg, None, FALSE)
Relate      == Pred("AliasRelate", "lhs", "rhs", FALSE)
RelateBound == Pred("AliasRelate", "lhs", "rhs", TRUE)

\* Types: two rigid types, an inference variable and a bound variable.
Types == {"u32", "i64", "?0", "^0"}

\* A cause is the chain of derived links on top of the root cause, outermost last;
\* idx is impl_def_predicate_index, -1 in a link that carries none.
Link(c, impl, idx, span, parent) ==
    [code |-> c, impl |-> impl, idx |-> idx, span |-> span, parent |-> parent]

Obligation(predicate, cause, depth) ==
    [predicate |-> predicate, cause |-> cause, recursion_depth |-> depth]

\* A candidate kind (inspect::ProbeKind).
TraitCandidateImpl(impl) == [probe |-> "TraitCandidate", source |-> "Impl", impl |-> impl]
TraitCandidateBuiltin    == [probe |-> "TraitCandidate", source |-> "BuiltinImpl", impl |-> None]
TraitCandidateParamEnv   == [probe |-> "TraitCandidate", source |-> "ParamEnv", impl |-> None]
RigidAlias               == [probe |-> "RigidAlias", source |-> None, impl |-> None]
RootProbe                == [probe |-> "Root", source |-> None, impl |-> None]

NestedGoal(predicate, source, result) ==
    [goal |-> predicate, source |-> source, result |-> result]

Candidate(kind, result, nested) == [kind |-> kind, result |-> result, nested |-> nested]

\* An InspectGoal: the goal, its depth, its recorded candidates and, for a
\* WellFormed goal, what wf::unnormalized_obligations yields for its argument.
InspectGoal(predicate, depth, cands, wf) ==
    [predicate |-> predicate, depth |-> depth, candidates |-> cands, wf |-> wf]

\* A pending recursive call: the obligation to put back, the goal whose visit
\* made the call, how (a nested goal, a well-formedness requirement, a probe of
\* WellFormed(lhs) or of WellFormed(rhs)) and for which nested goal: its position,
\* its source, the candidate it belongs to and impl_where_bound_count before it.
Frame(old, g, out) ==
    [old |-> old, goal |-> g.predicate, depth |-> g.depth, via |-> out.via,
     index |-> out.index, source |-> out.source, kind |-> out.kind, count |-> out.count]

\* The obligation of a value that holds none.
NoObligation == Obligation(Pred(None, None, None, FALSE), <<>>, 0)

Break(value) == [tag |-> "Break", value |-> value]
Continue == [tag |-> "Continue", value |-> NoObligation]

SeqsUpTo(S, n) == UNION {[1..k -> S] : k \in 0..n}

-----------------------------------------------------------------------------
\* The candidate filter.

\* IsReason taking every Maybe result for an ambiguity.
IsReasonOrOverflow(ambiguities, result) ==
    \/ ambiguities /\ result \in {"Ambiguity", "Overflow"}
    \/ ~ambiguities /\ result = "NoSolution"

\* The test both loops and the filter apply to a nested goal's result.
IsReason(ambiguities, result) ==
    \/ ambiguities /\ result = "Ambiguity"
    \/ ~ambiguities /\ result = "NoSolution"

HasFailingWhereBound(ambiguities, candidate) ==
    \E i \in 1..Len(candidate.nested) :
        /\ candidate.nested[i].source \in {"ImplWhereBound", "AliasBoundConstCondition",
                                             "InstantiateHigherRanked", "AliasWellFormed"}
        /\ IsReason(ambiguities, candidate.nested[i].result)

RetainFailingWhereBound(ambiguities, cands) ==
    SelectSeq(cands, LAMBDA c : HasFailingWhereBound(ambiguities, c))

RetainNonRigid(cands) == SelectSeq(cands, LAMBDA c : c.kind.probe # "RigidAlias")

\* non_trivial_candidates with the retain of failure mode inverted.
non_trivial_candidates_inverted(ambiguities, cands) ==
    IF ambiguities
    THEN SelectSeq(cands, LAMBDA c : IsOk(c.result))
    ELSE LET c1 == IF Len(cands) > 1
                   THEN SelectSeq(cands, LAMBDA c : ~HasFailingWhereBound(ambiguities, c))
                   ELSE cands
         IN IF Len(c1) > 1 THEN RetainNonRigid(c1) ELSE c1

non_trivial_candidates(ambiguities, cands) ==
    IF ambiguities
    THEN SelectSeq(cands, LAMBDA c : IsOk(c.result))
    ELSE LET c1 == IF Len(cands) > 1 THEN RetainFailingWhereBound(ambiguities, cands)
                   ELSE cands
         IN IF Len(c1) > 1 THEN RetainNonRigid(c1) ELSE c1

-----------------------------------------------------------------------------
\* The cause derivers.

\* derive_cause without the test that the impl declares a predicate at idx.
derive_cause_unchecked(kind, cause, idx, parent) ==
    IF kind.probe = "TraitCandidate" /\ kind.source = "Impl"
    THEN Append(cause, Link("ImplDerived", kind.impl, idx,
                            IF idx + 1 <= Len(predicates_of(kind.impl))
                            THEN predicates_of(kind.impl)[idx + 1] ELSE None, parent))
    ELSE IF kind.probe = "TraitCandidate" /\ kind.source = "BuiltinImpl"
         THEN Append(cause, Link("BuiltinDerived", None, -1, None, parent))
         ELSE cause

derive_cause(kind, cause, idx, parent) ==
    IF kind.probe = "TraitCandidate" /\ kind.source = "Impl"
    THEN IF idx + 1 <= Len(predicates_of(kind.impl))
         THEN Append(cause, Link("ImplDerived", kind.impl, idx,
                                 predicates_of(kind.impl)[idx + 1], parent))
         ELSE cause
    ELSE IF kind.probe = "TraitCandidate" /\ kind.source = "BuiltinImpl"
         THEN Append(cause, Link("BuiltinDerived", None, -1, None, parent))
         ELSE cause

derive_host_cause(kind, cause, idx, parent) ==
    IF kind.probe = "TraitCandidate" /\ kind.source = "Impl"
    THEN LET chain == predicates_of(kind.impl) \o const_conditions(kind.impl)
         IN IF idx + 1 <= Len(chain)
            THEN Append(cause, Link("ImplDerivedHost", kind.impl, -1, chain[idx + 1], parent))
            ELSE cause
    ELSE IF kind.probe = "TraitCandidate" /\ kind.source = "BuiltinImpl"
         THEN Append(cause, Link("BuiltinDerivedHost", None, -1, None, parent))
         ELSE cause

-----------------------------------------------------------------------------
\* visit_goal.

\* The child mode of a goal's predicate; a WellFormed goal is routed to
\* visit_well_formed_goal instead.
child_mode(predicate) ==
    CASE predicate.kind = "Trait" -> "Trait"
      [] predicate.kind = "HostEffect" -> "Host"
      [] predicate.kind = "NormalizesTo"
            /\ predicate.a \in {"ProjectionTy", "ProjectionConst"} -> "Trait"
      [] predicate.kind = "WellFormed" -> "WellFormed"
      [] OTHER -> "PassThrough"

\* The predicate carried by ChildMode::Trait / ChildMode::Host.
parent_pred(predicate) ==
    IF predicate.kind = "NormalizesTo"
    THEN Pred("Trait", "Tr", None, predicate.bound)
    ELSE predicate

is_excluded(candidate) ==
    /\ candidate.kind.probe = "TraitCandidate"
    /\ candidate.kind.source = "Impl"
    /\ do_not_recommend_impl(candidate.kind.impl)

\* has_failed_fn_ptr looking at the impl's where-bounds only.
has_failed_fn_ptr_where_bound(nested) ==
    \E i \in 1..Len(nested) :
        /\ nested[i].source = "ImplWhereBound"
        /\ nested[i].goal.kind = "Trait"
        /\ nested[i].goal.a = fn_ptr_trait
        /\ nested[i].result = "NoSolution"

\* The first loop over the nested goals: a failed `T: FnPtr` bound.
has_failed_fn_ptr(nested) ==
    \E i \in 1..Len(nested) :
        /\ nested[i].goal.kind = "Trait"
        /\ nested[i].goal.a = fn_ptr_trait
        /\ nested[i].result = "NoSolution"

\* make_obligation keeping the parent's recursion depth.
make_obligation_same_depth(nested_goal, cause, ob) ==
    Obligation(nested_goal.goal, cause, ob.recursion_depth)

make_obligation(nested_goal, cause, ob) ==
    Obligation(nested_goal.goal, cause, ob.recursion_depth + 1)

\* nested_obligation counting a skipped Misc nested goal as a where-bound.
nested_obligation_counting_misc(mode, predicate, kind, ob, nested_goal, count) ==
    IF mode \in {"Trait", "Host"} /\ nested_goal.source = "Misc"
    THEN [skip |-> TRUE, obligation |-> ob, count |-> count + 1]
    ELSE IF mode = "Trait" /\ nested_goal.source = "ImplWhereBound"
    THEN [skip |-> FALSE,
          obligation |-> make_obligation(nested_goal,
                            derive_cause(kind, ob.cause, count, parent_pred(predicate)), ob),
          count |-> count + 1]
    ELSE IF mode = "Host"
            /\ nested_goal.source \in {"ImplWhereBound", "AliasBoundConstCondition"}
    THEN [skip |-> FALSE,
          obligation |-> make_obligation(nested_goal,
                            derive_host_cause(kind, ob.cause, count, parent_pred(predicate)), ob),
          count |-> count + 1]
    ELSE IF nested_goal.source = "InstantiateHigherRanked"
    THEN [skip |-> FALSE, obligation |-> ob, count |-> count]
    ELSE [skip |-> FALSE, obligation |-> make_obligation(nested_goal, ob.cause, ob),
          count |-> count]

\* One iteration of the second loop up to the result test: whether the nested
\* goal is skipped as Misc, the obligation built for it, and the counter after it.
nested_obligation(mode, predicate, kind, ob, nested_goal, count) ==
    IF mode \in {"Trait", "Host"} /\ nested_goal.source = "Misc"
    THEN [skip |-> TRUE, obligation |-> ob, count |-> count]
    ELSE IF mode = "Trait" /\ nested_goal.source = "ImplWhereBound"
    THEN [skip |-> FALSE,
          obligation |-> make_obligation(nested_goal,
                            derive_cause(kind, ob.cause, count, parent_pred(predicate)), ob),
          count |-> count + 1]
    ELSE IF mode = "Host"
            /\ nested_goal.source \in {"ImplWhereBound", "AliasBoundConstCondition"}
    THEN [skip |-> FALSE,
          obligation |-> make_obligation(nested_goal,
                            derive_host_cause(kind, ob.cause, count, parent_pred(predicate)), ob),
          count |-> count + 1]
    ELSE IF nested_goal.source = "InstantiateHigherRanked"
    THEN [skip |-> FALSE, obligation |-> ob, count |-> count]
    ELSE [skip |-> FALSE, obligation |-> make_obligation(nested_goal, ob.cause, ob),
          count |-> count]

\* The second loop from nested goal i on: the first nested goal the visitor
\* recurses into.  Every return of visit_goal is a Break, so the `?` after the
\* recursive call leaves the loop and no later nested goal is reached.
RECURSIVE walk_nested(_, _, _, _, _, _, _, _)
walk_nested(ambiguities, mode, predicate, kind, ob, nested, i, count) ==
    IF i > Len(nested)
    THEN [tag |-> "none"]
    ELSE LET n == nested_obligation(mode, predicate, kind, ob, nested[i], count)
         IN IF ~n.skip /\ IsReason(ambiguities, nested[i].result)
            THEN [tag |-> "descend", via |-> "nested", index |-> i,
                  source |-> nested[i].source, kind |-> kind, count |-> count,
                  predicate |-> nested[i].goal, obligation |-> n.obligation]
            ELSE walk_nested(ambiguities, mode, predicate, kind, ob, nested, i + 1, n.count)

\* visit_well_formed_goal: the first requirement the visitor recurses into.  The
\* requirement's obligation is the generator's: its cause is built from the span
\* and the body id alone, its recursion depth is the generator's own.
RECURSIVE walk_well_formed(_, _, _)
walk_well_formed(ambiguities, wf, i) ==
    IF i > Len(wf)
    THEN [tag |-> "none"]
    ELSE IF IsReason(ambiguities, wf[i].result)
         THEN [tag |-> "descend", via |-> "wf", index |-> i,
               source |-> "Misc", kind |-> RootProbe, count |-> 0,
               predicate |-> wf[i].predicate,
               obligation |-> Obligation(wf[i].predicate, <<>>, wf[i].recursion_depth)]
         ELSE walk_well_formed(ambiguities, wf, i + 1)

\* visit_goal taking the first candidate whenever any is left.
visit_goal_first_candidate(ambiguities, ob, g) ==
    LET cands == non_trivial_candidates(ambiguities, g.candidates)
    IN IF Len(cands) = 0 THEN [tag |-> "break"]
       ELSE IF is_excluded(cands[1]) THEN [tag |-> "break"]
       ELSE IF child_mode(g.predicate) = "WellFormed"
       THEN LET w == walk_well_formed(ambiguities, g.wf, 1)
            IN IF w.tag = "none" THEN [tag |-> "break"] ELSE w
       ELSE IF has_failed_fn_ptr(cands[1].nested) THEN [tag |-> "break"]
       ELSE LET w == walk_nested(ambiguities, child_mode(g.predicate), g.predicate,
                                 cands[1].kind, ob, cands[1].nested, 1, 0)
            IN IF w.tag = "descend" THEN w
               ELSE IF g.predicate.kind = "AliasRelate" /\ ~g.predicate.bound
               THEN [tag |-> "probe", via |-> "lhs", index |-> 0,
                     source |-> "Misc", kind |-> cands[1].kind, count |-> 0,
                     predicate |-> WfOf(g.predicate.a), obligation |-> ob]
               ELSE [tag |-> "break"]

\* What one call of visit_goal does up to its first recursive call or its
\* return: "break" (return Break(self.obligation)), "descend" into a nested
\* goal or a well-formedness requirement, or "probe" WellFormed(lhs).
visit_goal(ambiguities, ob, g) ==
    LET cands == non_trivial_candidates(ambiguities, g.candidates)
    IN IF Len(cands) # 1 THEN [tag |-> "break"]
       ELSE IF is_excluded(cands[1]) THEN [tag |-> "break"]
       ELSE IF child_mode(g.predicate) = "WellFormed"
       THEN LET w == walk_well_formed(ambiguities, g.wf, 1)
            IN IF w.tag = "none" THEN [tag |-> "break"] ELSE w
       ELSE IF has_failed_fn_ptr(cands[1].nested) THEN [tag |-> "break"]
       ELSE LET w == walk_nested(ambiguities, child_mode(g.predicate), g.predicate,
                                 cands[1].kind, ob, cands[1].nested, 1, 0)
            IN IF w.tag = "descend" THEN w
               ELSE IF g.predicate.kind = "AliasRelate" /\ ~g.predicate.bound
               THEN [tag |-> "probe", via |-> "lhs", index |-> 0,
                     source |-> "Misc", kind |-> cands[1].kind, count |-> 0,
                     predicate |-> WfOf(g.predicate.a), obligation |-> ob]
               ELSE [tag |-> "break"]

\* Whether the call reaches `candidate.instantiate_nested_goals(self.span())`
\* outside any probe, which unifies inference variables.
instantiates_nested(ambiguities, g) ==
    LET cands == non_trivial_candidates(ambiguities, g.candidates)
    IN /\ Len(cands) = 1
       /\ ~is_excluded(cands[1])
       /\ child_mode(g.predicate) # "WellFormed"

-----------------------------------------------------------------------------
\* The inference context and the classification of the leaf.

\* infcx.probe(f): f's effect on the inference state is rolled back.
probe(before, after) == before

\* infcx.fudge_inference_if_ok(f): the source calls it "a probe"; the bindings
\* made inside are rolled back whether f returns Ok or Err.
fudge_inference_if_ok(before, after) == before

\* What evaluating a goal outside a probe does to the inference state.
evaluate_root_goal(state) == state \cup {"?0"}

\* What instantiating a candidate's nested goals does to the inference state.
instantiate_nested_goals(state) == state \cup {"?1"}

resolve_type(state, ty) == IF ty = "?0" /\ "?0" \in state THEN "u32" ELSE ty

resolve_vars_if_possible(state, ob) ==
    Obligation(Pred(ob.predicate.kind, resolve_type(state, ob.predicate.a),
                    resolve_type(state, ob.predicate.b), ob.predicate.bound),
               ob.cause, ob.recursion_depth)

\* enter_forall_and_leak_universe: a bound variable becomes a placeholder.
enter_forall(ty) == IF ty = "^0" THEN "!0" ELSE ty

ExpectedFound(expected, found) == [expected |-> expected, found |-> found]

\* A FulfillmentErrorCode: its variant, the variant's detail, and for Subtype the
\* pair of the code and the pair of its TypeError::Sorts.
Code(tag, detail, ef, sorts) == [tag |-> tag, detail |-> detail, ef |-> ef, sorts |-> sorts]

NoPair == ExpectedFound(None, None)
NoCode == Code(None, None, NoPair, NoPair)
Bug    == Code("bug", None, NoPair, NoPair)

\* error_code building Coerce's pair in the order of Subtype's.
error_code_coerce_as_subtype(predicate) ==
    CASE predicate.kind \in {"Projection", "NormalizesTo", "AliasRelate"} ->
            Code("Project", "Mismatch", NoPair, NoPair)
      [] predicate.kind = "ConstArgHasType" ->
            IF predicate.a = "Unevaluated"
            THEN Code("Select", "ConstArgHasWrongType", ExpectedFound(predicate.b, "type_of(uv.def)"), NoPair)
            ELSE IF predicate.a = "Param"
            THEN Code("Select", "ConstArgHasWrongType", ExpectedFound(predicate.b, "find_ty_from_env"), NoPair)
            ELSE IF predicate.a = "Value"
            THEN Code("Select", "ConstArgHasWrongType", ExpectedFound(predicate.b, "cv.ty"), NoPair)
            ELSE Bug
      [] predicate.kind \in {"Subtype", "Coerce"} ->
            LET expected_found ==
                    ExpectedFound(enter_forall(predicate.a), enter_forall(predicate.b))
            IN Code("Subtype", "Sorts", expected_found, expected_found)
      [] predicate.kind = "ConstEquate" -> Bug
      [] OTHER -> Code("Select", "Unimplemented", NoPair, NoPair)

\* The match of fulfillment_error_for_no_solution on the leaf's predicate.
error_code(predicate) ==
    CASE predicate.kind \in {"Projection", "NormalizesTo", "AliasRelate"} ->
            Code("Project", "Mismatch", NoPair, NoPair)
      [] predicate.kind = "ConstArgHasType" ->
            IF predicate.a = "Unevaluated"
            THEN Code("Select", "ConstArgHasWrongType", ExpectedFound(predicate.b, "type_of(uv.def)"), NoPair)
            ELSE IF predicate.a = "Param"
            THEN Code("Select", "ConstArgHasWrongType", ExpectedFound(predicate.b, "find_ty_from_env"), NoPair)
            ELSE IF predicate.a = "Value"
            THEN Code("Select", "ConstArgHasWrongType", ExpectedFound(predicate.b, "cv.ty"), NoPair)
            ELSE Bug
      [] predicate.kind = "Subtype" ->
            LET expected_found ==
                    ExpectedFound(enter_forall(predicate.a), enter_forall(predicate.b))
            IN Code("Subtype", "Sorts", expected_found, expected_found)
      [] predicate.kind = "Coerce" ->
            LET expected_found ==
                    ExpectedFound(enter_forall(predicate.b), enter_forall(predicate.a))
            IN Code("Subtype", "Sorts", expected_found, expected_found)
      [] predicate.kind = "ConstEquate" -> Bug
      [] OTHER -> Code("Select", "Unimplemented", NoPair, NoPair)

\* stalled_outcome refining an overflowed goal too.
stalled_outcome_refining_overflow(result) ==
    CASE result = "Ambiguity" ->
            [code |-> Code("Ambiguity", "None", NoPair, NoPair), refine |-> TRUE]
      [] result = "Overflow(true)" ->
            [code |-> Code("Ambiguity", "Some(true)", NoPair, NoPair), refine |-> TRUE]
      [] result = "Overflow(false)" ->
            [code |-> Code("Ambiguity", "Some(false)", NoPair, NoPair), refine |-> TRUE]
      [] OTHER -> [code |-> Bug, refine |-> FALSE]

\* The match of fulfillment_error_for_stalled on the re-solve's result: the code
\* and whether to refine.
stalled_outcome(result) ==
    CASE result = "Ambiguity" ->
            [code |-> Code("Ambiguity", "None", NoPair, NoPair), refine |-> TRUE]
      [] result = "Overflow(true)" ->
            [code |-> Code("Ambiguity", "Some(true)", NoPair, NoPair), refine |-> FALSE]
      [] result = "Overflow(false)" ->
            [code |-> Code("Ambiguity", "Some(false)", NoPair, NoPair), refine |-> FALSE]
      [] OTHER -> [code |-> Bug, refine |-> FALSE]

FulfillmentError(ob, c, root) == [obligation |-> ob, code |-> c, root_obligation |-> root]

NoError == FulfillmentError(NoObligation, NoCode, NoObligation)

-----------------------------------------------------------------------------
\* What the solver can record (the inputs of the walk).

\* The nested goals a candidate can record.
NestedGoals ==
    {NestedGoal(Relate, "Misc", r) : r \in Results}
    \cup {NestedGoal(TraitFnPtr, "Misc", "NoSolution")}
    \cup {NestedGoal(TraitTr, "ImplWhereBound", r) : r \in Results}
    \cup {NestedGoal(TraitFnPtr, "ImplWhereBound", r) : r \in {"Yes", "NoSolution"}}
    \cup {NestedGoal(HostTr, "AliasBoundConstCondition", r) : r \in Results}
    \cup {NestedGoal(TraitTr, "InstantiateHigherRanked", r) : r \in Results}
    \cup {NestedGoal(WfOf("alias"), "AliasWellFormed", r) : r \in Results}

\* The candidate kinds the solver records for a goal of this predicate.
CandidateKinds(predicate) ==
    CASE predicate.kind \in {"Trait", "HostEffect"} ->
            {TraitCandidateImpl(i) : i \in Impls}
            \cup {TraitCandidateBuiltin, TraitCandidateParamEnv}
      [] predicate.kind = "NormalizesTo" ->
            {TraitCandidateImpl("ImplA"), TraitCandidateParamEnv, RigidAlias}
      [] OTHER -> {RootProbe}

\* A goal is visited because its own result is what is diagnosed, and so is the
\* result of a candidate recorded alone.
SoleResult(ambiguities) == IF ambiguities THEN "Ambiguity" ELSE "NoSolution"

\* Candidates recorded side by side.
Rivals ==
    {Candidate(k, r, n) :
        k \in {TraitCandidateImpl("ImplA"), TraitCandidateImpl("ImplD"), RigidAlias},
        r \in {"Ambiguity", "NoSolution"},
        n \in {<<>>, <<NestedGoal(TraitTr, "ImplWhereBound", "NoSolution")>>}}

\* What wf::unnormalized_obligations can yield: a requirement, the result of its
\* own proof tree, and the recursion depth the generator gave its obligation.
WfRequirements ==
    {[predicate |-> p, result |-> r, recursion_depth |-> d] :
        p \in {TraitTr, Relate}, r \in Results, d \in {0, 1}}

\* The InspectGoals the solver can produce for a predicate at a depth, with at
\* most n nested goals per candidate.
Goals(predicate, depth, ambiguities, n) ==
    IF depth >= MaxDepth
    THEN {InspectGoal(predicate, depth, <<>>, <<>>)}
    ELSE IF predicate.kind = "WellFormed"
    THEN {InspectGoal(predicate, depth, c, w) :
            c \in {<<>>, <<Candidate(RootProbe, SoleResult(ambiguities), <<>>)>>},
            w \in SeqsUpTo(WfRequirements, n)}
    ELSE {InspectGoal(predicate, depth, <<Candidate(k, SoleResult(ambiguities), nl)>>, <<>>) :
            k \in CandidateKinds(predicate), nl \in SeqsUpTo(NestedGoals, n)}
         \cup {InspectGoal(predicate, depth, cs, <<>>) : cs \in SeqsUpTo(Rivals, MaxCands)}

\* The predicates of root obligations.
SubtypePreds ==
    {Pred(k, a, b, "^0" \in {a, b}) : k \in {"Subtype", "Coerce"}, a \in Types, b \in Types}

ConstArgPreds ==
    {Pred("ConstArgHasType", ct, "u32", FALSE) :
        ct \in {"Unevaluated", "Param", "Value", "Infer"}}

WalkPreds == {TraitTr, HostTr, NormProj, NormOpaque, WfOf("arg"), Relate, RelateBound}

RootPreds ==
    WalkPreds \cup SubtypePreds \cup ConstArgPreds
    \cup {Pred(k, None, None, FALSE) :
            k \in {"Projection", "RegionOutlives", "DynCompatible", "Ambiguous", "ConstEquate"}}

Certainties == {"Yes", "Ambiguity", "Overflow(true)", "Overflow(false)", "NoSolution"}

-----------------------------------------------------------------------------
\* The actions.

\* find_best_leaf_obligation up to the call of visit_proof_tree.
FindBestLeaf(ambiguities) ==
    /\ obligation' = resolve_vars_if_possible(infcx, root_obligation)
    /\ consider_ambiguities' = ambiguities
    /\ snapshot' = infcx
    /\ goal' = InspectGoal(obligation'.predicate, 0, <<>>, <<>>)
    /\ stack' = <<>>
    /\ pc' = "evaluate"
    /\ UNCHANGED <<entry, root_obligation, candidates, ret, infcx, infcx0, code,
                   certainty, refine_obligation, leaf, error>>

StartNoSolution ==
    /\ pc = "start"
    /\ entry = "no_solution"
    /\ FindBestLeaf(FALSE)

StartOverflow ==
    /\ pc = "start"
    /\ entry = "overflow"
    /\ FindBestLeaf(TRUE)

\* StalledProbe solving the root goal outside the probe.
StalledProbeUnprobed ==
    /\ pc = "start"
    /\ entry = "stalled"
    /\ \E c \in Certainties :
        LET out == stalled_outcome(c)
        IN /\ certainty' = c
           /\ code' = out.code
           /\ refine_obligation' = out.refine
           /\ pc' = IF out.code = Bug THEN "bug" ELSE "stalled"
    /\ infcx' = evaluate_root_goal(infcx)
    /\ UNCHANGED <<entry, root_obligation, consider_ambiguities, obligation, stack, goal,
                   candidates, ret, snapshot, infcx0, leaf, error>>

\* The probe of fulfillment_error_for_stalled: the root goal is solved once more.
StalledProbe ==
    /\ pc = "start"
    /\ entry = "stalled"
    /\ \E c \in Certainties :
        LET out == stalled_outcome(c)
        IN /\ certainty' = c
           /\ code' = out.code
           /\ refine_obligation' = out.refine
           /\ pc' = IF out.code = Bug THEN "bug" ELSE "stalled"
    /\ infcx' = probe(infcx, evaluate_root_goal(infcx))
    /\ UNCHANGED <<entry, root_obligation, consider_ambiguities, obligation, stack, goal,
                   candidates, ret, snapshot, infcx0, leaf, error>>

StalledRefine ==
    /\ pc = "stalled"
    /\ refine_obligation
    /\ FindBestLeaf(TRUE)

StalledNoRefine ==
    /\ pc = "stalled"
    /\ ~refine_obligation
    /\ error' = FulfillmentError(root_obligation, code, root_obligation)
    /\ pc' = "done"
    /\ UNCHANGED <<entry, root_obligation, consider_ambiguities, obligation, stack, goal,
                   candidates, ret, infcx, snapshot, infcx0, code, certainty, refine_obligation, leaf>>

\* The solver produces the proof tree of the goal the visitor is about to visit,
\* with at most n nested goals per candidate.
Evaluate(n) ==
    /\ pc = "evaluate"
    /\ \E g \in Goals(goal.predicate, goal.depth, consider_ambiguities, n) : goal' = g
    /\ infcx' = evaluate_root_goal(infcx)
    /\ pc' = "visit"
    /\ UNCHANGED <<entry, root_obligation, consider_ambiguities, obligation, stack,
                   candidates, ret, snapshot, infcx0, code, certainty, refine_obligation, leaf, error>>

\* One call of visit_goal, up to its first recursive call or its return.
VisitGoal ==
    /\ pc = "visit"
    /\ LET out == visit_goal(consider_ambiguities, obligation, goal)
       IN IF out.tag = "break"
          THEN /\ ret' = Break(obligation)
               /\ pc' = "return"
               /\ UNCHANGED <<obligation, stack, goal>>
          ELSE /\ stack' = Append(stack, Frame(obligation, goal, out))
               /\ obligation' = out.obligation
               /\ goal' = InspectGoal(out.predicate, goal.depth + 1, <<>>, <<>>)
               /\ pc' = "evaluate"
               /\ UNCHANGED ret
    /\ infcx' = IF instantiates_nested(consider_ambiguities, goal)
                THEN instantiate_nested_goals(infcx) ELSE infcx
    /\ UNCHANGED <<entry, root_obligation, consider_ambiguities, candidates, snapshot,
                   infcx0, code, certainty, refine_obligation, leaf, error>>

\* Return probing WellFormed(lhs) again whatever the probe returned.
ReturnProbingAgain ==
    /\ pc = "return"
    /\ stack # <<>>
    /\ LET frame == stack[Len(stack)]
       IN IF frame.via = "lhs"
          THEN /\ goal' = InspectGoal(WfOf(frame.goal.a), frame.depth + 1, <<>>, <<>>)
               /\ pc' = "evaluate"
               /\ UNCHANGED <<obligation, ret, stack>>
          ELSE /\ stack' = SubSeq(stack, 1, Len(stack) - 1)
               /\ obligation' = frame.old
               /\ ret' = IF ret.tag = "Break" THEN ret ELSE Break(frame.old)
               /\ pc' = "return"
               /\ UNCHANGED goal
    /\ UNCHANGED <<entry, root_obligation, consider_ambiguities, candidates, infcx, snapshot,
                   infcx0, code, certainty, refine_obligation, leaf, error>>

\* A recursive call returns to its caller: with_derived_obligation puts the old
\* obligation back and `?` passes a Break on; a Break from the probe of
\* WellFormed(lhs) is returned as it is, and only a Continue leads to the probe
\* of WellFormed(rhs).
Return ==
    /\ pc = "return"
    /\ stack # <<>>
    /\ LET frame == stack[Len(stack)]
       IN IF frame.via = "lhs" /\ ret.tag = "Continue"
          THEN /\ stack' = [stack EXCEPT ![Len(stack)].via = "rhs"]
               /\ goal' = InspectGoal(WfOf(frame.goal.b), frame.depth + 1, <<>>, <<>>)
               /\ pc' = "evaluate"
               /\ UNCHANGED <<obligation, ret>>
          ELSE /\ stack' = SubSeq(stack, 1, Len(stack) - 1)
               /\ obligation' = frame.old
               /\ ret' = IF ret.tag = "Break" THEN ret ELSE Break(frame.old)
               /\ pc' = "return"
               /\ UNCHANGED goal
    /\ UNCHANGED <<entry, root_obligation, consider_ambiguities, candidates, infcx, snapshot,
                   infcx0, code, certainty, refine_obligation, leaf, error>>

\* The walk is over: fudge_inference_if_ok ends and find_best_leaf_obligation
\* returns the Break value, or the resolved root obligation if there is none.
FudgeExit ==
    /\ pc = "return"
    /\ stack = <<>>
    /\ infcx' = fudge_inference_if_ok(snapshot, infcx)
    /\ leaf' = IF ret.tag = "Break" THEN ret.value ELSE obligation
    /\ pc' = "build"
    /\ UNCHANGED <<entry, root_obligation, consider_ambiguities, obligation, stack, goal,
                   candidates, ret, snapshot, infcx0, code, certainty, refine_obligation, error>>

\* The builder makes its record from the leaf.
Build ==
    /\ pc = "build"
    /\ LET c == CASE entry = "no_solution" -> error_code(leaf.predicate)
                  [] entry = "overflow" -> Code("Ambiguity", "Some(true)", NoPair, NoPair)
                  [] OTHER -> code
       IN /\ code' = c
          /\ IF c = Bug
             THEN pc' = "bug" /\ UNCHANGED error
             ELSE pc' = "done" /\ error' = FulfillmentError(leaf, c, root_obligation)
    /\ UNCHANGED <<entry, root_obligation, consider_ambiguities, obligation, stack, goal,
                   candidates, ret, infcx, snapshot, infcx0, certainty, refine_obligation, leaf>>

-----------------------------------------------------------------------------
\* The specifications.

InitWith(entries, preds, states) ==
    /\ entry \in entries
    /\ root_obligation \in {Obligation(p, <<>>, 0) : p \in preds}
    /\ infcx \in states
    /\ infcx0 = infcx
    /\ snapshot = infcx
    /\ pc = "start"
    /\ consider_ambiguities = FALSE
    /\ obligation = root_obligation
    /\ stack = <<>>
    /\ goal = InspectGoal(root_obligation.predicate, 0, <<>>, <<>>)
    /\ candidates = <<>>
    /\ ret = Continue
    /\ code = NoCode
    /\ certainty = None
    /\ refine_obligation = FALSE
    /\ leaf = root_obligation
    /\ error = NoError

\* The three builders, over every root predicate, with shallow candidates.
Init == InitWith({"no_solution", "stalled", "overflow"}, RootPreds, {{}, {"?0"}})

Next ==
    \/ StartNoSolution
    \/ StartOverflow
    \/ StalledProbe
    \/ StalledRefine
    \/ StalledNoRefine
    \/ Evaluate(1)
    \/ VisitGoal
    \/ Return
    \/ FudgeExit
    \/ Build

Spec == Init /\ [][Next]_vars

\* The best-leaf search in both modes, with candidates of up to MaxNested nested goals.
InitWalk == InitWith({"no_solution", "overflow"}, WalkPreds, {{}})

NextWalk ==
    \/ StartNoSolution
    \/ StartOverflow
    \/ Evaluate(MaxNested)
    \/ VisitGoal
    \/ Return
    \/ FudgeExit
    \/ Build

SpecWalk == InitWalk /\ [][NextWalk]_vars

\* The candidate filter alone, over goals with up to MaxCands candidates.
FilterNested ==
    {NestedGoal(TraitTr, src, r) : src \in Sources, r \in Results \ {"Overflow"}}

FilterCandidates(ambiguities) ==
    IF ambiguities
    THEN {Candidate(k, r, n) : k \in {TraitCandidateImpl("ImplA"), RigidAlias},
                               r \in {"Ambiguity", "NoSolution"},
                               n \in SeqsUpTo(FilterNested, 1)}
    ELSE {Candidate(k, "NoSolution", n) : k \in {TraitCandidateImpl("ImplA"), RigidAlias},
                                          n \in SeqsUpTo(FilterNested, MaxNested)}

InitFilter ==
    /\ entry = "filter"
    /\ pc = "filter"
    /\ consider_ambiguities \in BOOLEAN
    /\ goal \in {InspectGoal(TraitTr, 0, cs, <<>>) :
                    cs \in SeqsUpTo(FilterCandidates(consider_ambiguities), MaxCands)}
    /\ root_obligation = Obligation(TraitTr, <<>>, 0)
    /\ infcx = {}
    /\ infcx0 = infcx
    /\ snapshot = infcx
    /\ obligation = root_obligation
    /\ stack = <<>>
    /\ candidates = <<>>
    /\ ret = Continue
    /\ code = NoCode
    /\ certainty = None
    /\ refine_obligation = FALSE
    /\ leaf = root_obligation
    /\ error = NoError

\* self.non_trivial_candidates(goal), the first statement of visit_goal.
ApplyFilter ==
    /\ pc = "filter"
    /\ candidates' = non_trivial_candidates(consider_ambiguities, goal.candidates)
    /\ pc' = "filtered"
    /\ UNCHANGED <<entry, root_obligation, consider_ambiguities, obligation, stack, goal, ret,
                   infcx, snapshot, infcx0, code, certainty, refine_obligation, leaf, error>>

NextFilter == ApplyFilter

SpecFilter == InitFilter /\ [][NextFilter]_vars

-----------------------------------------------------------------------------
\* C1.

\* A nested goal of one of the four where-bound sources that itself failed.
FailedWhereBound(c) ==
    \E i \in 1..Len(c.nested) :
        /\ c.nested[i].source \in {"ImplWhereBound", "AliasBoundConstCondition",
                                     "InstantiateHigherRanked", "AliasWellFormed"}
        /\ c.nested[i].result = "NoSolution"

Kept(c) == \E j \in 1..Len(candidates) : candidates[j] = c

FilteredInFailureMode == pc = "filtered" /\ ~consider_ambiguities

\* C1 as stated: in failure mode, with more than one recorded candidate, every
\* candidate with a failed where-bound nested goal is dropped and every candidate
\* without one is kept; a single recorded candidate is returned unfiltered.
C1_DropsFailedWhereBounds ==
    FilteredInFailureMode =>
        IF Len(goal.candidates) > 1
        THEN \A i \in 1..Len(goal.candidates) :
                LET c == goal.candidates[i]
                IN /\ FailedWhereBound(c) => ~Kept(c)
                   /\ ~FailedWhereBound(c) => Kept(c)
        ELSE candidates = goal.candidates

\* C1 amended: in failure mode, with more than one recorded candidate, every
\* candidate without a failed where-bound nested goal is dropped and only
\* candidates with one are kept; if more than one has one, the RigidAlias ones
\* among them are dropped too; a single recorded candidate is returned unfiltered.
C1_KeepsFailedWhereBounds ==
    FilteredInFailureMode =>
        IF Len(goal.candidates) > 1
        THEN LET failing == {i \in 1..Len(goal.candidates) :
                                FailedWhereBound(goal.candidates[i])}
             IN \A i \in 1..Len(goal.candidates) :
                    LET c == goal.candidates[i]
                    IN /\ ~FailedWhereBound(c) => ~Kept(c)
                       /\ FailedWhereBound(c) /\ c.kind.probe # "RigidAlias" => Kept(c)
                       /\ FailedWhereBound(c) /\ c.kind.probe = "RigidAlias"
                            => (Kept(c) <=> Cardinality(failing) = 1)
        ELSE candidates = goal.candidates

\* Two recorded candidates, the first with a failed where-bound and the second
\* without: only the first is returned.
C1_Witness ==
    /\ FilteredInFailureMode
    /\ Len(goal.candidates) = 2
    /\ FailedWhereBound(goal.candidates[1])
    /\ ~FailedWhereBound(goal.candidates[2])
    /\ candidates = <<goal.candidates[1]>>

-----------------------------------------------------------------------------
\* C2.

NonTrivial == non_trivial_candidates(consider_ambiguities, goal.candidates)

\* visit_goal has returned Break(self.obligation) without any recursive call.
StopsHere ==
    /\ pc' = "return"
    /\ ret' = Break(obligation)
    /\ obligation' = obligation
    /\ stack' = stack

\* The visitor's obligation when the search starts.
RootLeaf == resolve_vars_if_possible(infcx0, root_obligation)

\* C2: visit_goal makes a recursive call only when the filtered candidate list has
\* exactly one element and that candidate is not an impl marked do_not_recommend;
\* otherwise it returns the current obligation; and a root goal whose filtered list
\* does not have exactly one element yields the root obligation as the leaf.
C2_StopsUnlessSoleCandidate ==
    /\ [][pc = "visit" =>
            IF Len(NonTrivial) # 1 \/ is_excluded(NonTrivial[1])
            THEN StopsHere
            ELSE TRUE]_vars
    /\ [](pc \in {"build", "done"} /\ goal.depth = 0 /\ Len(NonTrivial) # 1
            => leaf = RootLeaf)

\* A root goal with two non-trivial candidates in failure mode has been
\* searched: the leaf is the root obligation.
C2_Witness ==
    /\ pc = "build"
    /\ goal.depth = 0
    /\ Len(NonTrivial) = 2
    /\ ~consider_ambiguities
    /\ leaf = RootLeaf

-----------------------------------------------------------------------------
\* C3.

\* visit_goal has just returned at the deepest goal of the walk: the stack holds
\* the path from the root to this goal.
LeafReached == pc = "return" /\ ret.tag = "Break" /\ Len(stack) = goal.depth

\* The nested goal of this call got an attribution: ImplWhereBound under a Trait
\* or Host parent, AliasBoundConstCondition under a Host parent.
Attributed(frame) ==
    /\ frame.via = "nested"
    /\ \/ child_mode(frame.goal) = "Trait" /\ frame.source = "ImplWhereBound"
       \/ child_mode(frame.goal) = "Host"
            /\ frame.source \in {"ImplWhereBound", "AliasBoundConstCondition"}

\* The candidate can carry the attribution: a built-in impl, or a user impl that
\* declares a predicate at the nested goal's position.
Declares(frame) ==
    /\ frame.kind.probe = "TraitCandidate"
    /\ \/ frame.kind.source = "BuiltinImpl"
       \/ /\ frame.kind.source = "Impl"
          /\ frame.count < Len(predicates_of(frame.kind.impl))
                            + (IF child_mode(frame.goal) = "Host"
                               THEN Len(const_conditions(frame.kind.impl)) ELSE 0)

\* C3 as stated: the leaf's cause chain has as many derived links as there are
\* attributed nested goals on the path, whatever the candidates.
C3_LinkPerAttribution ==
    LeafReached =>
        /\ ret.value = obligation
        /\ Len(obligation.cause) = Cardinality({i \in 1..Len(stack) : Attributed(stack[i])})

\* The last well-formedness requirement on the path: its obligation starts a new cause.
LastWf == IF \E i \in 1..Len(stack) : stack[i].via = "wf"
          THEN CHOOSE i \in 1..Len(stack) :
                    /\ stack[i].via = "wf"
                    /\ \A j \in (i + 1)..Len(stack) : stack[j].via # "wf"
          ELSE 0

\* C3 amended: the search returns the obligation current at the deepest goal, and
\* its cause chain has one derived link for each attributed nested goal on the path
\* (after the last well-formedness requirement) whose candidate is a built-in impl
\* or a user impl declaring a predicate at that position, and no link for others.
C3_LinkPerDeclaredAttribution ==
    /\ LeafReached =>
        /\ ret.value = obligation
        /\ Len(obligation.cause)
            = Cardinality({i \in (LastWf + 1)..Len(stack) :
                                Attributed(stack[i]) /\ Declares(stack[i])})
    /\ pc \in {"build", "done"} => leaf = ret.value

\* A leaf two attributed nested goals below the root, with two links.
C3_Witness ==
    /\ LeafReached
    /\ Len(stack) = 2
    /\ \A i \in 1..2 : Attributed(stack[i]) /\ Declares(stack[i])
    /\ Len(obligation.cause) = 2

-----------------------------------------------------------------------------
\* C4.

\* The call just made: the top frame after a recursive call.
Top == stack'[Len(stack')]

Descends == pc = "visit" /\ pc' = "evaluate"

\* The number of ImplWhereBound nested goals before position i.
WhereBoundsBefore(nested, i) ==
    Cardinality({j \in 1..(i - 1) : nested[j].source = "ImplWhereBound"})

\* C4: under a Trait parent with a sole user-impl candidate, the obligation made
\* for the k-th ImplWhereBound nested goal (counting every ImplWhereBound nested
\* goal before it and no other) has the parent's cause under an ImplDerived link
\* naming the impl, k and the span of its k-th declared predicate, or the parent's
\* cause unchanged if the impl declares no k-th predicate.
C4_WhereBoundIndex ==
    [][Descends /\ Top.via = "nested" /\ child_mode(goal.predicate) = "Trait"
        /\ NonTrivial[1].kind.source = "Impl"
        /\ NonTrivial[1].nested[Top.index].source = "ImplWhereBound"
       => LET impl == NonTrivial[1].kind.impl
              k == WhereBoundsBefore(NonTrivial[1].nested, Top.index)
          IN /\ obligation'.predicate = NonTrivial[1].nested[Top.index].goal
             /\ obligation'.cause =
                  IF k < Len(predicates_of(impl))
                  THEN Append(obligation.cause,
                              Link("ImplDerived", impl, k, predicates_of(impl)[k + 1],
                                   parent_pred(goal.predicate)))
                  ELSE obligation.cause]_vars

\* The impl's second declared requirement is the only one that failed: the
\* obligation installed for it has an outermost link with index 1 and its span.
C4_Witness ==
    /\ pc = "evaluate"
    /\ Len(stack) = 1
    /\ stack[1].via = "nested"
    /\ stack[1].index = 2
    /\ stack[1].source = "ImplWhereBound"
    /\ stack[1].kind = TraitCandidateImpl("ImplA")
    /\ ~consider_ambiguities
    /\ Len(obligation.cause) = 1
    /\ obligation.cause[1].code = "ImplDerived"
    /\ obligation.cause[1].impl = "ImplA"
    /\ obligation.cause[1].idx = 1
    /\ obligation.cause[1].span = "A.where1"

-----------------------------------------------------------------------------
\* C6.

FailedFnPtr(nested_goal) ==
    /\ nested_goal.goal.kind = "Trait"
    /\ nested_goal.goal.a = "FnPtr"
    /\ nested_goal.result = "NoSolution"

\* C6: for a goal that is not WellFormed and has a sole, not excluded candidate,
\* a nested goal of that candidate, at any position, that is a failed FnPtr trait
\* predicate makes visit_goal return the current obligation without recursing.
C6_FailedFnPtrStops ==
    [][pc = "visit" /\ goal.predicate.kind # "WellFormed"
        /\ Len(NonTrivial) = 1 /\ ~is_excluded(NonTrivial[1])
        /\ (\E i \in 1..Len(NonTrivial[1].nested) : FailedFnPtr(NonTrivial[1].nested[i]))
       => StopsHere]_vars

\* The visit stopped at a goal whose sole candidate records a nested goal that is
\* the reason of the failure, and after it a failed FnPtr bound of source Misc.
C6_Witness ==
    /\ LeafReached
    /\ ~consider_ambiguities
    /\ goal.predicate = Relate
    /\ Len(NonTrivial) = 1
    /\ Len(NonTrivial[1].nested) = 2
    /\ NonTrivial[1].nested[1].result = "NoSolution"
    /\ ~FailedFnPtr(NonTrivial[1].nested[1])
    /\ FailedFnPtr(NonTrivial[1].nested[2])
    /\ NonTrivial[1].nested[2].source = "Misc"
    /\ ret.value = obligation

-----------------------------------------------------------------------------
\* C9.

\* C9 as stated: whenever the visitor replaces its obligation to recurse into a
\* nested goal or a well-formedness requirement, the recursion depth grows.
C9_DepthGrows ==
    [][Descends /\ Top.via \in {"nested", "wf"}
       => obligation'.recursion_depth > obligation.recursion_depth]_vars

\* C9 amended: the obligation made for a nested goal of any source but
\* InstantiateHigherRanked has a recursion depth one greater than the obligation it
\* replaces; for an InstantiateHigherRanked nested goal the visitor recurses with
\* its current obligation, at the same depth.
C9_DepthGrowsButHigherRanked ==
    [][Descends /\ Top.via = "nested"
       => IF Top.source = "InstantiateHigherRanked"
          THEN obligation' = obligation
          ELSE obligation'.recursion_depth = obligation.recursion_depth + 1]_vars

\* Two nested goals deep, neither InstantiateHigherRanked: depth 2.
C9_Witness ==
    /\ pc = "evaluate"
    /\ Len(stack) = 2
    /\ \A i \in 1..2 : stack[i].via = "nested" /\ stack[i].source # "InstantiateHigherRanked"
    /\ obligation.recursion_depth = 2
    /\ stack[2].old.recursion_depth = 1

-----------------------------------------------------------------------------
\* C5.

\* No visit_goal has returned and no goal was evaluated: the search did not run.
SearchNeverRan == ret = Continue /\ goal.candidates = <<>> /\ obligation = root_obligation

\* C5: the record of fulfillment_error_for_stalled follows the one re-solve: on
\* Overflow{s} the root obligation with Ambiguity{overflow: Some(s)} and no search;
\* on Ambiguity the leaf of the search in ambiguity mode with Ambiguity{overflow:
\* None}; on Yes or a definite failure no record but a fatal error.
C5_StalledFollowsResolve ==
    entry = "stalled" =>
        /\ certainty \in {"Yes", "NoSolution"} => pc = "bug" /\ error = NoError
        /\ certainty \in {"Overflow(true)", "Overflow(false)"} =>
            /\ pc \in {"stalled", "done"}
            /\ SearchNeverRan
            /\ pc = "done" =>
                error = FulfillmentError(root_obligation,
                            Code("Ambiguity",
                                 IF certainty = "Overflow(true)" THEN "Some(true)"
                                 ELSE "Some(false)", NoPair, NoPair),
                            root_obligation)
        /\ certainty = "Ambiguity" =>
            /\ pc # "bug"
            /\ pc # "stalled" => consider_ambiguities
            /\ pc = "done" =>
                /\ ret.tag = "Break"
                /\ error = FulfillmentError(ret.value,
                                            Code("Ambiguity", "None", NoPair, NoPair),
                                            root_obligation)

\* A stalled goal that overflowed with suggest_increasing_limit = false was
\* reported at the root.
C5_Witness ==
    /\ entry = "stalled"
    /\ pc = "done"
    /\ certainty = "Overflow(false)"
    /\ error.obligation = root_obligation
    /\ error.code.detail = "Some(false)"

-----------------------------------------------------------------------------
\* C7.

-----------------------------------------------------------------------------
\* C8.

\* C8: on a leaf Subtype(a, b) the code is Subtype with (expected, found) = (a, b),
\* on a leaf Coerce(a, b) it is Subtype with (expected, found) = (b, a), a and b as
\* instantiated from the predicate's binder; the TypeError carries the same pair.
C8_SubtypeAndCoerce ==
    pc = "done" /\ entry = "no_solution" =>
        LET a == enter_forall(error.obligation.predicate.a)
            b == enter_forall(error.obligation.predicate.b)
        IN /\ error.obligation.predicate.kind = "Subtype" =>
                /\ error.code.tag = "Subtype"
                /\ error.code.ef = ExpectedFound(a, b)
                /\ error.code.sorts = error.code.ef
           /\ error.obligation.predicate.kind = "Coerce" =>
                /\ error.code.tag = "Subtype"
                /\ error.code.ef = ExpectedFound(b, a)
                /\ error.code.sorts = error.code.ef

\* Coerce(u32, i64) was reported: expected i64, found u32.
C8_Witness ==
    /\ pc = "done"
    /\ entry = "no_solution"
    /\ error.obligation.predicate.kind = "Coerce"
    /\ error.obligation.predicate.a = "u32"
    /\ error.obligation.predicate.b = "i64"
    /\ error.code.ef = ExpectedFound("i64", "u32")

-----------------------------------------------------------------------------
\* C10.

\* The search in both modes with shallow candidates; it is one synchronous
\* computation, which keeps taking steps until it returns.
NextLive ==
    \/ StartNoSolution
    \/ StartOverflow
    \/ Evaluate(1)
    \/ VisitGoal
    \/ Return
    \/ FudgeExit
    \/ Build

InitLive == InitWith({"no_solution", "overflow"}, {TraitTr, WfOf("arg"), Relate}, {{}})

SpecLive == InitLive /\ [][NextLive]_vars /\ WF_vars(NextLive)

-----------------------------------------------------------------------------
\* C11.

\* The call visit_proof_tree_at_depth(WellFormed(lhs), ..) is about to return
\* to the alias-relate goal that made it.
LhsProbeReturns == pc = "return" /\ stack # <<>> /\ stack[Len(stack)].via = "lhs"

\* The visit of WellFormed(lhs) made no recursive call: no requirement of lhs
\* refined the obligation, and the value returned is the current obligation.
LhsUnrefined == LhsProbeReturns /\ Len(stack) = goal.depth /\ ret.value = obligation

\* C11 as stated: an alias-relate goal with no bound variables whose nested goals
\* refined nothing probes WellFormed(lhs) one level deeper; if that probe yields no
\* refined leaf it probes WellFormed(rhs) one level deeper, and otherwise it
\* returns the leaf the probe of lhs found.
C11_ProbesLhsThenRhs ==
    [][/\ pc = "visit" /\ visit_goal(consider_ambiguities, obligation, goal).tag = "probe"
            => /\ pc' = "evaluate"
               /\ goal'.predicate = WfOf(goal.predicate.a)
               /\ goal'.depth = goal.depth + 1
               /\ obligation' = obligation
       /\ LhsUnrefined
            => /\ pc' = "evaluate"
               /\ goal'.predicate = WfOf(stack[Len(stack)].goal.b)
               /\ goal'.depth = stack[Len(stack)].depth + 1
       /\ LhsProbeReturns /\ ~LhsUnrefined
            => pc' = "return" /\ ret' = ret]_vars

\* The search of a root alias-relate goal is over after the probe of
\* WellFormed(lhs) refined nothing: the last goal visited is WellFormed(lhs) and
\* the leaf is the root obligation.
C11_Witness ==
    /\ pc = "build"
    /\ root_obligation.predicate = Relate
    /\ goal.predicate = WfOf(Relate.a)
    /\ goal.depth = 1
    /\ leaf = RootLeaf

-----------------------------------------------------------------------------
\* C12.

\* The result is the one diagnosed: Maybe(Ambiguity) in ambiguity mode, a definite
\* failure in failure mode.
MatchesDiagnosed(result) ==
    IF consider_ambiguities THEN result = "Ambiguity" ELSE result = "NoSolution"

\* A nested goal of the goal being visited that the walk may recurse into.
Eligible(nested_goal) ==
    /\ MatchesDiagnosed(nested_goal.result)
    /\ ~(child_mode(goal.predicate) \in {"Trait", "Host"} /\ nested_goal.source = "Misc")

\* The recursive call on a nested goal is about to return to its caller.
NestedCallReturns == pc = "return" /\ stack # <<>> /\ stack[Len(stack)].via = "nested"

\* C12: the walk recurses into a nested goal of the sole candidate only if its
\* result matches what is diagnosed (never a success or an overflow) and it is not
\* a Misc nested goal under a Trait or Host parent, and it is the first such nested
\* goal in recorded order; a requirement of the well-formedness sub-walk is
\* recursed into only with a matching result; the value the recursive call
\* returns is returned for the node as it is, without visiting a later sibling.
C12_FirstMatchWins ==
    [][/\ Descends /\ Top.via = "nested"
            => /\ Len(NonTrivial) = 1
               /\ Top.index \in 1..Len(NonTrivial[1].nested)
               /\ Eligible(NonTrivial[1].nested[Top.index])
               /\ NonTrivial[1].nested[Top.index].result \notin {"Yes", "Overflow"}
               /\ \A j \in 1..(Top.index - 1) : ~Eligible(NonTrivial[1].nested[j])
               /\ goal'.predicate = NonTrivial[1].nested[Top.index].goal
       /\ Descends /\ Top.via = "wf"
            => /\ MatchesDiagnosed(goal.wf[Top.index].result)
               /\ \A j \in 1..(Top.index - 1) : ~MatchesDiagnosed(goal.wf[j].result)
       /\ NestedCallReturns
            => /\ ret.tag = "Break"
               /\ pc' = "return"
               /\ ret' = ret
               /\ stack' = SubSeq(stack, 1, Len(stack) - 1)
               /\ obligation' = stack[Len(stack)].old]_vars

\* In ambiguity mode the leaf was found under the second nested goal of the root
\* goal's candidate, the first one having been passed over.
C12_Witness ==
    /\ LeafReached
    /\ consider_ambiguities
    /\ Len(stack) = 1
    /\ stack[1].via = "nested"
    /\ stack[1].index = 2
    /\ ret.value = obligation
    /\ obligation # stack[1].old

====
